---------------------------- MODULE Spec2Model ----------------------------
(***************************************************************************)
(* Model of employee_payroll_runs.py: the period fetcher                   *)
(* (_fetch_payroll_runs_for_period), which walks a cursor-paginated        *)
(* collection, filters records by check date and folds net pay and         *)
(* earnings into a FiscalYearEarnings, and summarize_employee_payroll_runs: *)
(* its fiscal-year windows, the mapping files it loads with                *)
(* _load_mapping_file, and the two fetches it runs with asyncio.gather.    *)
(*                                                                         *)
(* Amounts are Python floats (IEEE-754 binary64).  A float is modelled     *)
(* exactly on the values h * 2^53 + l (h, l small naturals) as the record  *)
(* [h |-> h, l |-> l]; FAdd is binary64 addition, round-to-nearest-even,   *)
(* on these values.  The JSON value null is the record NULL.               *)
(*                                                                         *)
(* Instants are counted in half days: an even number is midnight UTC of a  *)
(* day, the following odd number is noon of that day.                      *)
(***************************************************************************)
EXTENDS Integers, Sequences, FiniteSets, TLC

(***************************************************************************)
(* Bounds of the model.                                                    *)
(***************************************************************************)
\* requests one fetch may issue (pages the server serves at most)
MaxPages == 2
\* records the server serves to one fetch, over all its pages
MaxRecs == 2
\* earning lines the server serves to one fetch, over all its records
MaxLines == 3
\* the window [start_date, end_date] of the fetch: its first day and its length
WindowDay == 1
WindowLen == 2
\* the first of the three calendar years the summary's inputs are drawn from
FirstYear == 2023

(***************************************************************************)
(* Python floats.                                                          *)
(***************************************************************************)
NULL == [h |-> -1, l |-> 0]
F(n) == [h |-> 0, l |-> n]
\* 2^53 = 9007199254740992.0, the first float whose successor is 2 away
BIG == [h |-> 1, l |-> 0]

\* The spacing of the floats in the binade of h * 2^53 + l (l < 2^53).
Ulp(h) == IF h = 0 THEN 1 ELSE IF h < 2 THEN 2 ELSE IF h < 4 THEN 4
          ELSE IF h < 8 THEN 8 ELSE 16

\* x + y of two non-negative floats: the exact sum rounded to the nearest
\* float, a tie going to the float with the even mantissa.
FAdd(x, y) ==
    LET h == x.h + y.h
        l == x.l + y.l
        u == Ulp(h)
        r == l % u
        b == l - r
    IN  [h |-> h,
         l |-> IF 2 * r < u THEN b
               ELSE IF 2 * r > u THEN b + u
               ELSE IF (b \div u) % 2 = 0 THEN b ELSE b + u]

IsNoneOrZero_null(amount) == amount = NULL

\* amount is None or float(amount) == 0
IsNoneOrZero(amount) == amount = NULL \/ amount = F(0)

(***************************************************************************)
(* Python dicts with string keys: functions; dict.get(key, default).       *)
(***************************************************************************)
EmptyDict == << >>

Get(d, key, default) == IF key \in DOMAIN d THEN d[key] ELSE default

\* d[key] = value, the other entries kept
Put(d, key, value) ==
    [k \in DOMAIN d \cup {key} |-> IF k = key THEN value ELSE d[k]]

(***************************************************************************)
(* Inputs.                                                                 *)
(***************************************************************************)
Codes == {"REG", "OT"}
OtherKey == "Other Allowances or Earnings"
OtherLiteral == "Other Allowances"

\* (earnings_map, category_map) pairs as _load_mapping_file returns them
Mappings ==
    { [earnings |-> EmptyDict, category |-> EmptyDict],
      [earnings |-> ("REG" :> "Regular Pay"),
       category |-> ("REG" :> "Base") @@ (OtherKey :> "Misc")],
      [earnings |-> ("REG" :> "Regular Pay") @@ ("OT" :> "Overtime Pay"),
       category |-> ("REG" :> "Base") @@ ("OT" :> "Base")] }

\* A date is <<year, month, day>>; None is the absent argument.
None == <<0, 0, 0>>

IsLeap(y) == (y % 4 = 0 /\ y % 100 # 0) \/ y % 400 = 0

DaysInMonth(y, m) ==
    IF m = 2 THEN (IF IsLeap(y) THEN 29 ELSE 28)
    ELSE IF m \in {4, 6, 9, 11} THEN 30 ELSE 31

IsDate(date) ==
    /\ date[2] \in 1..12
    /\ date[3] \in 1..DaysInMonth(date[1], date[2])

\* An instant is a number of half-days since the midnight that begins the
\* year before FirstYear: even at midnight, odd at noon.
DaysInYear(y) == IF IsLeap(y) THEN 366 ELSE 365

RECURSIVE DaysBeforeYear(_)
DaysBeforeYear(y) ==
    IF y < FirstYear THEN 0 ELSE DaysBeforeYear(y - 1) + DaysInYear(y - 1)

RECURSIVE DaysBeforeMonth(_, _)
DaysBeforeMonth(y, m) ==
    IF m <= 1 THEN 0 ELSE DaysBeforeMonth(y, m - 1) + DaysInMonth(y, m - 1)

\* datetime(y, m, d, tzinfo=timezone.utc), as an instant
Midnight(date) ==
    2 * (DaysBeforeYear(date[1]) + DaysBeforeMonth(date[1], date[2])
         + date[3] - 1)

RECURSIVE MonthOfDay(_, _, _)
MonthOfDay(y, m, n) ==
    IF n < DaysInMonth(y, m) THEN <<y, m, n + 1>>
    ELSE MonthOfDay(y, m + 1, n - DaysInMonth(y, m))

RECURSIVE YearOfDay(_, _)
YearOfDay(y, n) ==
    IF n < DaysInYear(y) THEN MonthOfDay(y, 1, n)
    ELSE YearOfDay(y + 1, n - DaysInYear(y))

\* the date of an instant
DateOf(t) == YearOfDay(FirstYear - 1, t \div 2)

VARIABLES
    start_date,                \* the fetch's window, two instants
    end_date

\* A record's check_date field: absent (missing, null or ""), a value that
\* does not parse (ValueError, or AttributeError for a non-string), a
\* timestamp without UTC offset (parses to a naive datetime), or a timestamp
\* with offset (an instant t).
CheckDates ==
    { [kind |-> "absent", t |-> 0], [kind |-> "unparsable", t |-> 0],
      [kind |-> "naive", t |-> start_date] }
    \cup [kind : {"aware"},
          t : {start_date - 2, start_date, end_date, end_date + 1, end_date + 2}]

NetPays == {NULL, F(1)}
\* An earning line of a record: REG null, 0 or 1, OT 1 or 2^53.
Lines == [type : {"REG"}, amount : {NULL, F(0), F(1)}]
         \cup [type : {"OT"}, amount : {F(1), BIG}]

\* A record of a page: its check_date, its net_pay and its earnings field
\* (absent, or a list of n lines; the lines are drawn as the loop reads them).
Runs(dates, pays, maxn) == [check_date : dates, net_pay : pays,
                            earnings : {"absent", "list"}, n : 0..maxn]

\* The three families of pages the model serves.  "earnings" varies the
\* earning lines and the mappings, for records that all carry net_pay 1 and
\* the window's first instant as check_date; "dates" varies the check_date
\* and the net_pay of records whose earnings are absent or one line of REG 1;
\* "pages" varies the cursors, for records without earnings.
Servers == {"earnings", "dates", "pages"}
\* The pages served to the two fetches of a summary: any status,
\* at most one record a page, records of net_pay 1 with no earnings or one
\* line, REG 1 or OT 1.
GatherServer == "gather"

NoCursor == ""
Cursors == {"c1", "c2"}
Statuses == {200, 201, 500}
Bodies == {"body"}

\* A response: status, text, and the JSON body's results (n records, drawn as
\* the loop reads them) and next.
Responses(cursors, maxn) ==
    [status_code : Statuses, text : Bodies, n : 0..maxn,
     next : cursors \cup {NoCursor}]

NoResponse == [status_code |-> 0, text |-> "", n |-> 0, next |-> NoCursor]
NoRun == [check_date |-> [kind |-> "absent", t |-> 0], net_pay |-> NULL,
          earnings |-> "absent", n |-> 0]
NoLine == [type |-> "", amount |-> NULL]
NoError == [kind |-> "", status_code |-> 0, text |-> ""]

(***************************************************************************)
(* FiscalYearEarnings.                                                     *)
(***************************************************************************)
\* FiscalYearEarnings(year, 0.0, 0.0, {}, {})
NewFiscalYearEarnings(y) ==
    [year |-> y, net_pay |-> F(0), total_gross_earnings |-> F(0),
     earnings_by_type |-> EmptyDict, earnings_by_category |-> EmptyDict]

\* EarningDetail(earning_code, label, amount)
EarningDetail(code, label, amount) ==
    [earning_code |-> code, label |-> label, amount |-> amount]

VARIABLES
    server,                    \* the family of pages the server serves
    use_check_date_filtering,  \* the fetch's flag
    earnings_map,              \* code -> label
    category_map,              \* code -> category
    year,                      \* the fetch's year argument
    pc,                        \* where the fetch is
    cursor,                    \* the loop's cursor
    data,                      \* the page being read (response.json())
    ri,                        \* records of data read so far
    run,                       \* the record being read
    li,                        \* earning lines of run read so far
    earning,                   \* the earning line being read
    result,                    \* the FiscalYearEarnings being built
    returned,                  \* the value the fetch returned, if it has
    error,                     \* the exception the fetch raised, if it has
    requests,                  \* history: the params of every request issued
    responses,                 \* history: every response received
    runs_seen,                 \* history: every record read
    lines_seen,                \* history: every earning line read
    sum_pc,                    \* where summarize_employee_payroll_runs is
    current_fy_start,          \* its argument, None or a date
    current_fy_end,            \* its argument, None or a date
    current_year,              \* datetime.now(timezone.utc).year
    this_fy_start, this_fy_end,
    last_fy_start, last_fy_end,
    cwd_is_module_dir,         \* Path.cwd() is the directory of the module
    files,                     \* the file system: what each candidate path holds
    consulted,                 \* history: the paths tested with path.exists()
    summary,                   \* the SummaryResult it returned, if it has
    sum_error,                 \* the exception it raised, if it has
    client,                    \* the httpx.AsyncClient the fetches share
    gathered,                  \* what the await of asyncio.gather ended with
    task,                      \* the coroutine the fetch variables belong to
    parked                     \* the frame of the other coroutine, if any

fetch_vars == <<server, use_check_date_filtering, earnings_map, category_map, year,
                start_date, end_date,
                pc, cursor, data, ri, run, li, earning, result, returned, error,
                requests, responses, runs_seen, lines_seen>>
sum_vars == <<sum_pc, current_fy_start, current_fy_end, current_year,
              this_fy_start, this_fy_end, last_fy_start, last_fy_end,
              cwd_is_module_dir, files, consulted, summary, sum_error,
              client, gathered>>
task_vars == <<task, parked>>
\* the variables of one coroutine of the fetcher: its arguments that differ
\* between the two fetches, and its locals
frame_vars == <<year, start_date, end_date, pc, cursor, data, ri, run, li, earning, result, returned,
                error, requests, responses, runs_seen, lines_seen>>
vars == <<fetch_vars, sum_vars, task_vars>>


(***************************************************************************)
(* The period fetcher, _fetch_payroll_runs_for_period.                     *)
(***************************************************************************)
\* date.strftime("%Y-%m-%d")
FormatYMD(date) ==
    LET two(n) == IF n < 10 THEN "0" \o ToString(n) ELSE ToString(n)
    IN  ToString(date[1]) \o "-" \o two(date[2]) \o "-" \o two(date[3])

\* start_date.strftime("%Y-%m-%d"): the date of the instant, the time of day
\* lost.
FormatDate(t) == FormatYMD(DateOf(t))

QueryParams_always(filtering) ==
    ("employee_id" :> "employee") @@
    ("expand" :> "earnings,deductions,taxes") @@
    ("page_size" :> "100") @@
    ("ended_after" :> FormatDate(start_date)) @@
    ("ended_before" :> FormatDate(end_date))

\* query_params: the date filters are added when there is no check-date
\* filtering (a date string is modelled by the day it names).
QueryParams(filtering) ==
    LET base == ("employee_id" :> "employee") @@
                ("expand" :> "earnings,deductions,taxes") @@
                ("page_size" :> "100")
    IN  IF ~filtering
        THEN base @@ ("ended_after" :> FormatDate(start_date)) @@
                     ("ended_before" :> FormatDate(end_date))
        ELSE base

\* params of one request: query_params, and the cursor when it is truthy.
RequestParams(filtering, cur) ==
    IF cur # NoCursor
    THEN QueryParams(filtering) @@ ("cursor" :> cur)
    ELSE QueryParams(filtering)

IsErrorStatus_4xx(status_code) == status_code \in 400..499

\* response.status_code != 200
IsErrorStatus(status_code) == status_code # 200

\* The in-memory check-date test of one record: "accept", "skip" (continue)
\* or "TypeError" (the comparison of a naive with an aware datetime raises,
\* and only ValueError and AttributeError are caught).
CheckDateTest(check_date) ==
    IF check_date.kind = "absent" THEN "skip"
    ELSE IF check_date.kind = "unparsable" THEN "skip"
    ELSE IF check_date.kind = "naive" THEN "TypeError"
    ELSE IF check_date.t < start_date \/ check_date.t > end_date THEN "skip"
    ELSE "accept"

AddNetPay_assign(res, net_pay) ==
    IF net_pay # NULL
    THEN [res EXCEPT !.net_pay = net_pay]
    ELSE res

\* result.net_pay += float(net_pay), when net_pay is not None
AddNetPay(res, net_pay) ==
    IF net_pay # NULL
    THEN [res EXCEPT !.net_pay = FAdd(@, net_pay)]
    ELSE res

AfterRecord_early(res, r, outcome) == AddNetPay(res, r.net_pay)

\* The accumulator after the record loop has read record r up to its
\* earnings: the check-date test comes first, and only an accepted record
\* adds its net pay.
AfterRecord(res, r, outcome) ==
    IF outcome = "accept" THEN AddNetPay(res, r.net_pay) ELSE res

ResolveCategory_literal(cmap, code) == Get(cmap, code, OtherLiteral)

\* category_map.get(code, category_map.get(OtherKey, OtherLiteral))
ResolveCategory(cmap, code) == Get(cmap, code, Get(cmap, OtherKey, OtherLiteral))

AddToType_assign(by_type, code, amount) ==
    [by_type EXCEPT ![code].amount = amount]

\* result.earnings_by_type[earning_code].amount += amount
AddToType(by_type, code, amount) ==
    [by_type EXCEPT ![code].amount = FAdd(@, amount)]

\* result.earnings_by_category[category] += amount
AddToCategory(by_cat, category, amount) ==
    [by_cat EXCEPT ![category] = FAdd(@, amount)]

\* earnings_map.get(code, code)
ResolveLabel(emap, code) == Get(emap, code, code)

\* The body of the loop over a record's earnings, for one earning line.
FoldEarning(res, e, emap, cmap) ==
    IF IsNoneOrZero(e.amount) THEN res
    ELSE
    LET code == e.type
        amount == e.amount
        label == ResolveLabel(emap, code)
        by_type == IF code \notin DOMAIN res.earnings_by_type
                   THEN Put(res.earnings_by_type, code,
                            EarningDetail(code, label, F(0)))
                   ELSE res.earnings_by_type
        category == ResolveCategory(cmap, code)
        by_cat == IF category \notin DOMAIN res.earnings_by_category
                  THEN Put(res.earnings_by_category, category, F(0))
                  ELSE res.earnings_by_category
    IN  [res EXCEPT
           !.total_gross_earnings = FAdd(@, amount),
           !.earnings_by_type = AddToType(by_type, code, amount),
           !.earnings_by_category = AddToCategory(by_cat, category, amount)]

\* The state at the call of the fetch, its pages served by one of servers.
FetchStart(servers) ==
    /\ server \in servers
    /\ use_check_date_filtering \in BOOLEAN
    /\ server = "earnings" => ~use_check_date_filtering
    /\ \E m \in Mappings :
         /\ earnings_map = m.earnings
         /\ category_map = m.category
         /\ server # "earnings" => OtherKey \in DOMAIN m.category
    /\ year = FirstYear + 1
    /\ start_date = Midnight(<<year, 1, 1>>) + 2 * WindowDay
    /\ end_date = start_date + 2 * WindowLen
    /\ pc = "request"
    /\ cursor = NoCursor
    /\ data = NoResponse
    /\ ri = 0
    /\ run = NoRun
    /\ li = 0
    /\ earning = NoLine
    /\ result = NewFiscalYearEarnings(year)
    /\ returned = << >>
    /\ error = NoError
    /\ requests = << >>
    /\ responses = << >>
    /\ runs_seen = << >>
    /\ lines_seen = << >>

FetchInit == FetchStart(Servers)

\* The responses the server may give to the next request: a chain ends (no
\* next, or an error) at request MaxPages at the latest.
ServerResponses ==
    { r \in Responses(IF server = "pages" THEN Cursors ELSE {"c1"},
                      MaxRecs - Len(runs_seen)) :
        /\ Len(requests) = MaxPages =>
             (r.next = NoCursor \/ r.status_code # 200)
        /\ r.status_code # 200 =>
             /\ r.next = "c1"
             /\ r.n = IF MaxRecs - Len(runs_seen) > 0 THEN 1 ELSE 0
        /\ server = GatherServer => r.n <= 1 }

\* The records a page may hold next.
ServerRuns ==
    IF server = "earnings"
    THEN { r \in Runs({[kind |-> "aware", t |-> start_date]}, {F(1)},
                      MaxLines - Len(lines_seen)) :
             r.earnings = "absent" => r.n = 0 }
    ELSE IF server = "dates"
    THEN { r \in Runs(CheckDates, NetPays, 1) :
             /\ r.earnings = "absent" <=> r.n = 0
             /\ r.n <= MaxLines - Len(lines_seen) }
    ELSE IF server = GatherServer
    THEN { r \in Runs({[kind |-> "aware", t |-> start_date]}, {F(1)}, 1) :
             /\ r.earnings = "absent" <=> r.n = 0
             /\ r.n <= MaxLines - Len(lines_seen) }
    ELSE { r \in Runs({[kind |-> "absent", t |-> 0],
                       [kind |-> "aware", t |-> start_date]}, NetPays, 0) :
             r.earnings = "absent" }

\* The earning lines a record may hold next.
ServerLines ==
    IF server = "earnings" THEN Lines
    ELSE IF server = GatherServer
    THEN {[type |-> "REG", amount |-> F(1)], [type |-> "OT", amount |-> F(1)]}
    ELSE {[type |-> "REG", amount |-> F(1)]}

\* client.get(base_url, params=params, headers=headers): the request is
\* issued, or, the client being closed, httpx refuses to send it and raises
\* RuntimeError, which the fetch does not catch.
SendRequest ==
    /\ pc = "request"
    /\ Len(requests) < MaxPages
    /\ IF client = "closed"
       THEN /\ pc' = "raised"
            /\ error' = [kind |-> "RuntimeError", status_code |-> 0, text |-> ""]
            /\ UNCHANGED requests
       ELSE /\ requests' = Append(requests,
                                  RequestParams(use_check_date_filtering, cursor))
            /\ pc' = "await"
            /\ UNCHANGED error
    /\ UNCHANGED <<server, use_check_date_filtering, earnings_map, category_map, year,
                   start_date, end_date,
                   cursor,
                   data, ri, run, li, earning, result, returned,
                   responses, runs_seen, lines_seen>>

\* The response arrives: a status other than 200 raises, else the page is read.
ReceiveResponse ==
    /\ pc = "await"
    /\ \E resp \in ServerResponses :
         /\ responses' = Append(responses, resp)
         /\ IF IsErrorStatus(resp.status_code)
            THEN /\ pc' = "raised"
                 /\ error' = [kind |-> "Exception",
                              status_code |-> resp.status_code,
                              text |-> resp.text]
                 /\ UNCHANGED <<data, ri>>
            ELSE /\ pc' = "record"
                 /\ data' = resp
                 /\ ri' = 0
                 /\ UNCHANGED error
    /\ UNCHANGED <<server, use_check_date_filtering, earnings_map, category_map, year,
                   start_date, end_date,
                   cursor,
                   run, li, earning, result, returned, requests, runs_seen,
                   lines_seen>>

\* What the record loop does with run when the check-date test gives outcome.
RecordStep(r, outcome) ==
    /\ run' = r
    /\ runs_seen' = Append(runs_seen, [run |-> r, outcome |-> outcome])
    /\ result' = AfterRecord(result, r, outcome)
    /\ CASE outcome = "skip" ->
              /\ ri' = ri + 1
              /\ UNCHANGED <<pc, li, error>>
         [] outcome = "TypeError" ->
              /\ pc' = "raised"
              /\ error' = [kind |-> "TypeError", status_code |-> 0, text |-> ""]
              /\ UNCHANGED <<ri, li>>
         [] OTHER ->
              /\ li' = 0
              /\ IF r.n = 0
                 THEN ri' = ri + 1 /\ pc' = "record"
                 ELSE ri' = ri /\ pc' = "line"
              /\ UNCHANGED error

\* The record loop takes the next record of the page.
ReadRecord ==
    /\ pc = "record"
    /\ ri < data.n
    /\ \E r \in ServerRuns :
         RecordStep(r, IF use_check_date_filtering
                       THEN CheckDateTest(r.check_date)
                       ELSE "accept")
    /\ UNCHANGED <<server, use_check_date_filtering, earnings_map, category_map, year,
                   start_date, end_date,
                   cursor,
                   data, earning, returned, requests, responses, lines_seen>>

\* The earnings loop takes the next earning line of the record.
ReadLine ==
    /\ pc = "line"
    /\ li < run.n
    /\ \E e \in ServerLines :
         /\ earning' = e
         /\ lines_seen' = Append(lines_seen, e)
         /\ result' = FoldEarning(result, e, earnings_map, category_map)
    /\ li' = li + 1
    /\ IF li + 1 = run.n
       THEN ri' = ri + 1 /\ pc' = "record"
       ELSE ri' = ri /\ pc' = "line"
    /\ UNCHANGED <<server, use_check_date_filtering, earnings_map, category_map, year,
                   start_date, end_date,
                   cursor,
                   data, run, returned, error, requests, responses, runs_seen>>

NextCursor_first(page) == IF page.next = NoCursor THEN NoCursor ELSE "c1"

\* data.get("next")
NextCursor(page) == page.next

\* cursor = data.get("next"); the loop ends when it is falsy.
NextPage ==
    /\ pc = "record"
    /\ ri = data.n
    /\ cursor' = NextCursor(data)
    /\ IF cursor' = NoCursor
       THEN pc' = "returned" /\ returned' = <<result>>
       ELSE pc' = "request" /\ UNCHANGED returned
    /\ UNCHANGED <<server, use_check_date_filtering, earnings_map, category_map, year,
                   start_date, end_date,
                   data,
                   ri, run, li, earning, result, error, requests, responses,
                   runs_seen, lines_seen>>

(***************************************************************************)
(* The fiscal-year windows of summarize_employee_payroll_runs.  A datetime *)
(* is its date <<year, month, day>>.                                       *)
(***************************************************************************)
Years == FirstYear..(FirstYear + 2)

\* The dates the arguments are drawn from.
Dates ==
    { date \in Years \X {1, 2, 3, 6, 7, 12} \X {1, 28, 29, 30, 31} :
        /\ IsDate(date)
        /\ <<date[2], date[3]>> \in { <<1, 1>>, <<2, 28>>, <<2, 29>>, <<3, 1>>,
                                      <<6, 30>>, <<7, 1>>, <<12, 31>> } }

Before(a, b) ==
    \/ a[1] < b[1]
    \/ a[1] = b[1] /\ a[2] < b[2]
    \/ a[1] = b[1] /\ a[2] = b[2] /\ a[3] <= b[3]

\* datetime(date.year - 1, date.month, date.day, tzinfo=timezone.utc): the
\* date, or ok = FALSE when the constructor raises ValueError (day is out of
\* range for month).
PriorYearDate(date) ==
    LET prior == <<date[1] - 1, date[2], date[3]>>
    IN  [ok |-> IsDate(prior), date |-> prior]

(***************************************************************************)
(* The mapping files, _load_mapping_file.  A path is a directory (the      *)
(* working directory or the module's), a subdirectory ("" or "payroll")    *)
(* and a file name; the file system says what each path holds: nothing, a  *)
(* file that is not JSON, or a JSON object.                                *)
(***************************************************************************)
earnings_map_file == "earnings_ukg.json"
category_map_file == "earnings_to_aon.json"

Places == [dir : {"cwd", "module"}, sub : {"", "payroll"}]

Missing == [kind |-> "missing", value |-> EmptyDict]
Malformed == [kind |-> "malformed", value |-> EmptyDict]
Json(d) == [kind |-> "json", value |-> d]

\* What a candidate of the earnings file, and of the category file, may hold.
EarningsFiles ==
    { Missing, Malformed, Json("REG" :> "Regular Pay"),
      Json(("REG" :> "Regular Pay") @@ ("OT" :> "Overtime Pay")) }
CategoryFiles ==
    { Missing, Malformed, Json(("REG" :> "Base") @@ (OtherKey :> "Misc")),
      Json(("REG" :> "Base") @@ ("OT" :> "Base")) }

NoFiles == (earnings_map_file :> [p \in Places |-> Missing]) @@
           (category_map_file :> [p \in Places |-> Missing])

\* Path(__file__).parent, given whether it is the working directory
ModuleDir(same) == IF same THEN "cwd" ELSE "module"

\* possible_paths
PossiblePaths_module_first(filename, module_dir) ==
    << [name |-> filename, place |-> [dir |-> module_dir, sub |-> ""]],
       [name |-> filename, place |-> [dir |-> module_dir, sub |-> "payroll"]],
       [name |-> filename, place |-> [dir |-> "cwd", sub |-> ""]],
       [name |-> filename, place |-> [dir |-> "cwd", sub |-> "payroll"]] >>

PossiblePaths(filename, module_dir) ==
    << [name |-> filename, place |-> [dir |-> "cwd", sub |-> ""]],
       [name |-> filename, place |-> [dir |-> "cwd", sub |-> "payroll"]],
       [name |-> filename, place |-> [dir |-> module_dir, sub |-> ""]],
       [name |-> filename, place |-> [dir |-> module_dir, sub |-> "payroll"]] >>

\* what the file system holds at path
FileAt(fs, path) == fs[path.name][path.place]

\* path.exists()
Exists(fs, path) == FileAt(fs, path).kind # "missing"

\* The loop over possible_paths from candidate i on, seen being the paths
\* tested so far: the first path that exists is opened and parsed, and
\* json.load raises on a file that is not JSON; {} when the paths run out.
RECURSIVE TryPaths(_, _, _, _)
TryPaths(fs, paths, i, seen) ==
    IF i > Len(paths)
    THEN [kind |-> "ok", value |-> EmptyDict, tested |-> seen, opened |-> << >>]
    ELSE LET path == paths[i]
             tested == Append(seen, path)
         IN  IF ~Exists(fs, path) THEN TryPaths(fs, paths, i + 1, tested)
             ELSE IF FileAt(fs, path).kind = "malformed"
             THEN [kind |-> "JSONDecodeError", value |-> EmptyDict,
                   tested |-> tested, opened |-> <<path>>]
             ELSE [kind |-> "ok", value |-> FileAt(fs, path).value,
                   tested |-> tested, opened |-> <<path>>]

\* _load_mapping_file(filename)
LoadMappingFile(fs, filename, module_dir) ==
    TryPaths(fs, PossiblePaths(filename, module_dir), 1, << >>)

NoLoad == [kind |-> "", value |-> EmptyDict, tested |-> << >>, opened |-> << >>]

\* the await of asyncio.gather has not ended
NoOutcome == [kind |-> "pending", values |-> << >>, error |-> NoError]

\* No summary runs: the fetch is called on its own, with an open client.
SumIdle ==
    /\ sum_pc = "idle"
    /\ client = "open"
    /\ gathered = NoOutcome
    /\ cwd_is_module_dir = FALSE
    /\ files = NoFiles
    /\ consulted = << >>
    /\ summary = << >>
    /\ sum_error = NoError
    /\ current_fy_start = None
    /\ current_fy_end = None
    /\ current_year = 0
    /\ this_fy_start = None
    /\ this_fy_end = None
    /\ last_fy_start = None
    /\ last_fy_end = None

SumInit ==
    /\ sum_pc = "start"
    /\ client = "none"
    /\ gathered = NoOutcome
    /\ current_year \in Years
    /\ current_fy_start \in Dates \cup {None}
    /\ current_fy_end \in Dates \cup {None}
    /\ (current_fy_start # None /\ current_fy_end # None)
         => Before(current_fy_start, current_fy_end)
    /\ current_fy_start = None => current_fy_end \in {None, <<current_year, 12, 31>>}
    /\ current_fy_end = None => current_fy_start \in {None, <<current_year, 1, 1>>}
    /\ IF current_fy_start = None /\ current_fy_end = None
       THEN /\ cwd_is_module_dir \in BOOLEAN
            /\ \E fe \in [Places -> EarningsFiles], fc \in [Places -> CategoryFiles] :
                 /\ files = (earnings_map_file :> fe) @@ (category_map_file :> fc)
                 /\ cwd_is_module_dir =>
                      \A p \in Places : p.dir = "module" =>
                         fe[p] = Missing /\ fc[p] = Missing
       ELSE cwd_is_module_dir = FALSE /\ files = NoFiles
    /\ consulted = << >>
    /\ summary = << >>
    /\ sum_error = NoError
    /\ this_fy_start = None
    /\ this_fy_end = None
    /\ last_fy_start = None
    /\ last_fy_end = None

\* The defaults and the prior window; a ValueError of either prior date ends
\* the call.
ComputeWindows ==
    /\ sum_pc = "start"
    /\ this_fy_start' = IF current_fy_start # None THEN current_fy_start
                        ELSE <<current_year, 1, 1>>
    /\ this_fy_end' = IF current_fy_end # None THEN current_fy_end
                      ELSE <<current_year, 12, 31>>
    /\ LET prior_start == PriorYearDate(this_fy_start')
           prior_end == PriorYearDate(this_fy_end')
       IN  IF ~prior_start.ok
           THEN sum_pc' = "ValueError" /\ UNCHANGED <<last_fy_start, last_fy_end>>
           ELSE IF ~prior_end.ok
           THEN /\ sum_pc' = "ValueError"
                /\ last_fy_start' = prior_start.date
                /\ UNCHANGED last_fy_end
           ELSE /\ sum_pc' = "load"
                /\ last_fy_start' = prior_start.date
                /\ last_fy_end' = prior_end.date
    /\ UNCHANGED <<current_fy_start, current_fy_end, current_year,
                   cwd_is_module_dir, files, consulted, summary, sum_error,
                   client, gathered>>

\* The two mapping files are loaded, the earnings map first; an error of
\* either load ends the call.
LoadMappings ==
    /\ sum_pc = "load"
    /\ LET first == LoadMappingFile(files, earnings_map_file,
                                    ModuleDir(cwd_is_module_dir))
           second == IF first.kind = "ok"
                     THEN LoadMappingFile(files, category_map_file,
                                          ModuleDir(cwd_is_module_dir))
                     ELSE NoLoad
       IN  /\ consulted' = consulted \o first.tested \o second.tested
           /\ earnings_map' = first.value
           /\ category_map' = second.value
           /\ sum_pc' = IF first.kind = "ok" /\ second.kind = "ok" THEN "fetch"
                        ELSE "JSONDecodeError"
    /\ UNCHANGED <<current_fy_start, current_fy_end, current_year,
                   this_fy_start, this_fy_end, last_fy_start, last_fy_end,
                   cwd_is_module_dir, files, summary, sum_error,
                   client, gathered>>
    /\ UNCHANGED <<server, use_check_date_filtering, frame_vars>>

\* A frame: the values of frame_vars of a coroutine that is not running.
NoFrame == [task |-> "", year |-> 0, start_date |-> 0, end_date |-> 0,
            pc |-> "idle", cursor |-> NoCursor,
            data |-> NoResponse, ri |-> 0, run |-> NoRun, li |-> 0,
            earning |-> NoLine, result |-> NewFiscalYearEarnings(0),
            returned |-> << >>, error |-> NoError, requests |-> << >>,
            responses |-> << >>, runs_seen |-> << >>, lines_seen |-> << >>]

\* The client is opened and the two period fetches are started on it, each
\* with its own window and year: the coroutine of the current year, which
\* runs first, and that of the prior year; each has its own frame.
StartFetches ==
    /\ sum_pc = "fetch"
    /\ sum_pc' = "gather"
    /\ client' = "open"
    /\ task' = "this_fy"
    /\ year' = this_fy_end[1]
    /\ start_date' = Midnight(this_fy_start)
    /\ end_date' = Midnight(this_fy_end)
    /\ pc' = "request"
    /\ result' = NewFiscalYearEarnings(this_fy_end[1])
    /\ parked' = [NoFrame EXCEPT !.task = "last_fy",
                                 !.year = last_fy_end[1],
                                 !.start_date = Midnight(last_fy_start),
                                 !.end_date = Midnight(last_fy_end),
                                 !.pc = "request",
                                 !.result = NewFiscalYearEarnings(last_fy_end[1])]
    /\ UNCHANGED <<server, use_check_date_filtering, earnings_map, category_map,
                   cursor, data, ri, run, li, earning, returned, error,
                   requests, responses, runs_seen, lines_seen>>
    /\ UNCHANGED <<current_fy_start, current_fy_end, current_year,
                   this_fy_start, this_fy_end, last_fy_start, last_fy_end,
                   cwd_is_module_dir, files, consulted, summary, sum_error,
                   gathered>>

FetchIdle ==
    /\ server = GatherServer
    /\ use_check_date_filtering = FALSE
    /\ earnings_map = EmptyDict
    /\ category_map = EmptyDict
    /\ year = 0
    /\ start_date = 0
    /\ end_date = 0
    /\ pc = "idle"
    /\ cursor = NoCursor
    /\ data = NoResponse
    /\ ri = 0
    /\ run = NoRun
    /\ li = 0
    /\ earning = NoLine
    /\ result = NewFiscalYearEarnings(year)
    /\ returned = << >>
    /\ error = NoError
    /\ requests = << >>
    /\ responses = << >>
    /\ runs_seen = << >>
    /\ lines_seen = << >>

\* one fetch, called on its own
OneTask == task = "this_fy" /\ parked = NoFrame

Init == FetchInit /\ SumIdle /\ OneTask

Next ==
    \/ SendRequest /\ UNCHANGED <<sum_vars, task_vars>>
    \/ ReceiveResponse /\ UNCHANGED <<sum_vars, task_vars>>
    \/ ReadRecord /\ UNCHANGED <<sum_vars, task_vars>>
    \/ ReadLine /\ UNCHANGED <<sum_vars, task_vars>>
    \/ NextPage /\ UNCHANGED <<sum_vars, task_vars>>

Spec == Init /\ [][Next]_vars

SummaryInit == SumInit /\ FetchIdle /\ OneTask

SummaryNext ==
    \/ ComputeWindows /\ UNCHANGED <<fetch_vars, task_vars>>
    \/ LoadMappings /\ UNCHANGED task_vars
    \/ StartFetches

SpecSummary == SummaryInit /\ [][SummaryNext]_vars

(***************************************************************************)
(* asyncio.gather of the two fetches.  The event loop runs one coroutine  *)
(* at a time: the fetch variables are the frame of the coroutine that      *)
(* runs, parked is the frame of the other one.  A coroutine yields only    *)
(* at its await, client.get, and when it is done; the response of either   *)
(* request may arrive first.  Both fetches send their requests through the *)
(* client of the call, which the call closes when it leaves its async with *)
(* block.                                                                  *)
(***************************************************************************)
\* the frame of the coroutine that runs
Frame ==
    [task |-> task, year |-> year, start_date |-> start_date,
     end_date |-> end_date, pc |-> pc, cursor |-> cursor, data |-> data,
     ri |-> ri, run |-> run, li |-> li, earning |-> earning, result |-> result,
     returned |-> returned, error |-> error, requests |-> requests,
     responses |-> responses, runs_seen |-> runs_seen, lines_seen |-> lines_seen]

ResumeFrame_shared(saved, running) == [saved EXCEPT !.result = running.result]

\* The frame a coroutine resumes with: the one it was suspended with, its
\* locals being its own.
ResumeFrame(saved, running) == saved

\* The event loop suspends the coroutine that runs, at its await or when it
\* is done (it returned or raised), and resumes (or starts) the other one:
\* gather cancels no fetch, neither when the other fetch raises nor when the
\* await of gather has raised: the fetch that is left runs on, against the
\* client the call has closed, until it ends or the caller's event loop
\* cancels it.
Switch ==
    /\ pc \in {"await", "returned", "raised"}
    /\ parked.pc \in {"request", "await"}
    /\ parked' = Frame
    /\ LET f == ResumeFrame(parked, Frame)
       IN  /\ task' = f.task
           /\ year' = f.year
           /\ start_date' = f.start_date
           /\ end_date' = f.end_date
           /\ pc' = f.pc
           /\ cursor' = f.cursor
           /\ data' = f.data
           /\ ri' = f.ri
           /\ run' = f.run
           /\ li' = f.li
           /\ earning' = f.earning
           /\ result' = f.result
           /\ returned' = f.returned
           /\ error' = f.error
           /\ requests' = f.requests
           /\ responses' = f.responses
           /\ runs_seen' = f.runs_seen
           /\ lines_seen' = f.lines_seen
    /\ UNCHANGED <<server, use_check_date_filtering, earnings_map, category_map>>
    /\ UNCHANGED sum_vars

\* the frames of the two fetches, whichever runs
ThisFrame == IF task = "this_fy" THEN Frame ELSE parked
LastFrame == IF task = "last_fy" THEN Frame ELSE parked

GatherOutcome_partial(this, last) ==
    IF this.pc \in {"returned", "raised"} /\ last.pc \in {"returned", "raised"}
    THEN [kind |-> "return", values |-> <<this.result, last.result>>,
          error |-> NoError]
    ELSE [kind |-> "pending", values |-> << >>, error |-> NoError]

\* await asyncio.gather(this_fy_task, last_fy_task): the exception of the
\* fetch that raised first in time is raised, and the two results are
\* returned, in the order of the arguments, when both fetches have returned.
\* Of two fetches that raised, the one that runs raised last: the event loop
\* left the other one after it had raised.
GatherOutcome(this, last) ==
    IF this.pc = "raised" /\ last.pc = "raised"
    THEN [kind |-> "raise", values |-> << >>,
          error |-> IF task = this.task THEN last.error ELSE this.error]
    ELSE IF this.pc = "raised"
    THEN [kind |-> "raise", values |-> << >>, error |-> this.error]
    ELSE IF last.pc = "raised"
    THEN [kind |-> "raise", values |-> << >>, error |-> last.error]
    ELSE IF this.pc = "returned" /\ last.pc = "returned"
    THEN [kind |-> "return", values |-> <<this.returned[1], last.returned[1]>>,
          error |-> NoError]
    ELSE [kind |-> "pending", values |-> << >>, error |-> NoError]

\* FiscalYearResult(...) of a window and the fetch's FiscalYearEarnings;
\* asdict(detail) of an EarningDetail is the record of its three fields.
FiscalYearResult(start, end, fy_data) ==
    [start_date |-> FormatYMD(start),
     end_date |-> FormatYMD(end),
     year |-> fy_data.year,
     net_pay |-> fy_data.net_pay,
     total_gross_earnings |-> fy_data.total_gross_earnings,
     earnings_by_type |-> [code \in DOMAIN fy_data.earnings_by_type |->
                             fy_data.earnings_by_type[code]],
     earnings_by_category |-> fy_data.earnings_by_category]

\* SummaryResult(current_fy=..., last_fy=...)
SummaryResult(this_fy_data, last_fy_data) ==
    [current_fy |-> FiscalYearResult(this_fy_start, this_fy_end, this_fy_data),
     last_fy |-> FiscalYearResult(last_fy_start, last_fy_end, last_fy_data)]

\* The await of gather ends, with the first exception of a fetch or with the
\* two results, and the call leaves the async with block: the client is
\* closed at once, and the call then awaits the closing of its connections.
\* The event loop resumes the call when no fetch is in the middle of a step,
\* and after each fetch has had its first step: both tasks are scheduled
\* before the call awaits.
Gather ==
    /\ sum_pc = "gather"
    /\ pc \in {"await", "returned", "raised"}
    /\ parked.pc # "request"
    /\ LET outcome == GatherOutcome(ThisFrame, LastFrame)
       IN  /\ outcome.kind # "pending"
           /\ gathered' = outcome
    /\ client' = "closed"
    /\ sum_pc' = "closing"
    /\ UNCHANGED <<current_fy_start, current_fy_end, current_year,
                   this_fy_start, this_fy_end, last_fy_start, last_fy_end,
                   cwd_is_module_dir, files, consulted, summary, sum_error>>
    /\ UNCHANGED <<fetch_vars, task_vars>>

\* The client's connections are closed and the call ends: it raises the
\* exception gather ended with, or builds and returns the SummaryResult.
CloseClient ==
    /\ sum_pc = "closing"
    /\ pc \in {"await", "returned", "raised"}
    /\ IF gathered.kind = "raise"
       THEN /\ sum_pc' = "raised"
            /\ sum_error' = gathered.error
            /\ UNCHANGED summary
       ELSE /\ sum_pc' = "returned"
            /\ summary' = <<SummaryResult(gathered.values[1],
                                          gathered.values[2])>>
            /\ UNCHANGED sum_error
    /\ UNCHANGED <<current_fy_start, current_fy_end, current_year,
                   this_fy_start, this_fy_end, last_fy_start, last_fy_end,
                   cwd_is_module_dir, files, consulted, client, gathered>>
    /\ UNCHANGED <<fetch_vars, task_vars>>

\* The client has been closed while the fetch waits for an answer: the
\* connection of its request is closed under it and client.get raises
\* httpx.ReadError, which the fetch does not catch.  No answer is received.
ConnectionClosed ==
    /\ client = "closed"
    /\ pc = "await"
    /\ pc' = "raised"
    /\ error' = [kind |-> "ReadError", status_code |-> 0, text |-> ""]
    /\ UNCHANGED <<server, use_check_date_filtering, earnings_map, category_map,
                   year, start_date, end_date, cursor, data, ri, run, li,
                   earning, result, returned, requests, responses, runs_seen,
                   lines_seen>>
    /\ UNCHANGED <<sum_vars, task_vars>>

\* The summary at its gather: the default window of the year after
\* FirstYear, the two mapping files found in the working directory, and the
\* two coroutines created.
GatherInit ==
    /\ server = GatherServer
    /\ use_check_date_filtering = FALSE
    /\ cwd_is_module_dir = FALSE
    /\ files = [NoFiles EXCEPT
                  ![earnings_map_file][[dir |-> "cwd", sub |-> ""]] =
                      Json("REG" :> "Regular Pay"),
                  ![category_map_file][[dir |-> "cwd", sub |-> ""]] =
                      Json(("REG" :> "Base") @@ (OtherKey :> "Misc"))]
    /\ consulted = << [name |-> earnings_map_file,
                       place |-> [dir |-> "cwd", sub |-> ""]],
                      [name |-> category_map_file,
                       place |-> [dir |-> "cwd", sub |-> ""]] >>
    /\ earnings_map = ("REG" :> "Regular Pay")
    /\ category_map = ("REG" :> "Base") @@ (OtherKey :> "Misc")
    /\ sum_pc = "gather"
    /\ client = "open"
    /\ gathered = NoOutcome
    /\ current_fy_start = None
    /\ current_fy_end = None
    /\ current_year = FirstYear + 1
    /\ this_fy_start = <<current_year, 1, 1>>
    /\ this_fy_end = <<current_year, 12, 31>>
    /\ last_fy_start = <<current_year - 1, 1, 1>>
    /\ last_fy_end = <<current_year - 1, 12, 31>>
    /\ summary = << >>
    /\ sum_error = NoError
    /\ task = "this_fy"
    /\ year = current_year
    /\ start_date = Midnight(this_fy_start)
    /\ end_date = Midnight(this_fy_end)
    /\ pc = "request"
    /\ cursor = NoCursor
    /\ data = NoResponse
    /\ ri = 0
    /\ run = NoRun
    /\ li = 0
    /\ earning = NoLine
    /\ result = NewFiscalYearEarnings(year)
    /\ returned = << >>
    /\ error = NoError
    /\ requests = << >>
    /\ responses = << >>
    /\ runs_seen = << >>
    /\ lines_seen = << >>
    /\ parked = [NoFrame EXCEPT !.task = "last_fy",
                                !.year = current_year - 1,
                                !.start_date = Midnight(last_fy_start),
                                !.end_date = Midnight(last_fy_end),
                                !.pc = "request",
                                !.result = NewFiscalYearEarnings(current_year - 1)]

\* The call has raised and its caller ends the event loop, as asyncio.run
\* does, before the fetch that waits for an answer has been resumed: that
\* fetch is cancelled, and CancelledError is raised at its await of
\* client.get, which does not catch it.  No answer is received.
Cancel ==
    /\ sum_pc = "raised"
    /\ pc = "await"
    /\ pc' = "raised"
    /\ error' = [kind |-> "CancelledError", status_code |-> 0, text |-> ""]
    /\ UNCHANGED <<server, use_check_date_filtering, earnings_map, category_map,
                   year, start_date, end_date, cursor, data, ri, run, li,
                   earning, result, returned, requests, responses, runs_seen,
                   lines_seen>>
    /\ UNCHANGED <<sum_vars, task_vars>>

GatherNext ==
    \/ SendRequest /\ UNCHANGED <<sum_vars, task_vars>>
    \/ ReceiveResponse /\ UNCHANGED <<sum_vars, task_vars>>
    \/ ReadRecord /\ UNCHANGED <<sum_vars, task_vars>>
    \/ ReadLine /\ UNCHANGED <<sum_vars, task_vars>>
    \/ NextPage /\ UNCHANGED <<sum_vars, task_vars>>
    \/ Switch
    \/ Gather
    \/ CloseClient
    \/ ConnectionClosed
    \/ Cancel

SpecGather == GatherInit /\ [][GatherNext]_vars

(***************************************************************************)
(* The fetch called a second time with the same arguments against the same *)
(* pages: parked keeps the frame the first call ended with, and the server *)
(* serves the second call what it served the first.                        *)
(***************************************************************************)
StartAccumulator_kept(previous, y) == previous

\* The accumulator a call starts with, whatever an earlier call ended with:
\* a new FiscalYearEarnings.
StartAccumulator(previous, y) == NewFiscalYearEarnings(y)

\* The first call is over and the fetch is called again: new locals.
CallAgain ==
    /\ task = "run1"
    /\ pc \in {"returned", "raised"}
    /\ parked' = Frame
    /\ task' = "run2"
    /\ pc' = "request"
    /\ cursor' = NoCursor
    /\ data' = NoResponse
    /\ ri' = 0
    /\ run' = NoRun
    /\ li' = 0
    /\ earning' = NoLine
    /\ result' = StartAccumulator(result, year)
    /\ returned' = << >>
    /\ error' = NoError
    /\ requests' = << >>
    /\ responses' = << >>
    /\ runs_seen' = << >>
    /\ lines_seen' = << >>
    /\ UNCHANGED <<server, use_check_date_filtering, earnings_map, category_map,
                   year, start_date, end_date>>
    /\ UNCHANGED sum_vars

\* What the server has served the second call is what it served the first.
SamePages ==
    task = "run2" =>
      /\ Len(responses) <= Len(parked.responses)
      /\ \A i \in DOMAIN responses : responses[i] = parked.responses[i]
      /\ Len(runs_seen) <= Len(parked.runs_seen)
      /\ \A i \in DOMAIN runs_seen : runs_seen[i].run = parked.runs_seen[i].run
      /\ Len(lines_seen) <= Len(parked.lines_seen)
      /\ \A i \in DOMAIN lines_seen : lines_seen[i] = parked.lines_seen[i]

RerunInit ==
    /\ FetchStart({GatherServer, "pages"})
    /\ SumIdle
    /\ task = "run1"
    /\ parked = NoFrame

RerunNext ==
    \/ SendRequest /\ UNCHANGED <<sum_vars, task_vars>>
    \/ ReceiveResponse /\ UNCHANGED <<sum_vars, task_vars>> /\ SamePages'
    \/ ReadRecord /\ UNCHANGED <<sum_vars, task_vars>> /\ SamePages'
    \/ ReadLine /\ UNCHANGED <<sum_vars, task_vars>> /\ SamePages'
    \/ NextPage /\ UNCHANGED <<sum_vars, task_vars>>
    \/ CallAgain

SpecRerun == RerunInit /\ [][RerunNext]_vars

\* Progress: the server answers every request and the event loop runs a
\* coroutine that can run, so a step that stays possible is taken; with two
\* coroutines, a step of the one that runs (an answer, or its cancellation
\* once the call has raised) and a switch to the other are each taken when
\* they stay possible.
SpecFair == Spec /\ WF_vars(Next)
SpecGatherFair ==
    SpecGather /\ WF_vars(GatherNext /\ task' = task) /\ WF_vars(Switch)

(***************************************************************************)
(* Reference sums.  Sums of floats are float sums: FSum adds the elements  *)
(* of a sequence from 0.0 in the order of the sequence.                    *)
(***************************************************************************)
RECURSIVE FSum(_)
FSum(seq) ==
    IF seq = << >> THEN F(0)
    ELSE FAdd(FSum(SubSeq(seq, 1, Len(seq) - 1)), seq[Len(seq)])

\* The float sum of the values of a dict of floats over keys, in the order
\* CHOOSE takes them (with at most two keys every order gives the same float).
RECURSIVE FSumOver(_, _)
FSumOver(d, keys) ==
    IF keys = {} THEN F(0)
    ELSE LET k == CHOOSE x \in keys : TRUE
         IN  FAdd(FSumOver(d, keys \ {k}), d[k])

SumByType(res) ==
    FSumOver([c \in DOMAIN res.earnings_by_type |->
                 res.earnings_by_type[c].amount],
             DOMAIN res.earnings_by_type)
SumByCategory(res) ==
    FSumOver(res.earnings_by_category, DOMAIN res.earnings_by_category)

\* The amounts of a sequence of earning lines.
Amounts(ls) == [i \in 1..Len(ls) |-> ls[i].amount]

\* An earning line with a non-null amount not equal to zero.
Counts(e) == e.amount # NULL /\ e.amount # F(0)
OfCode(c, e) == e.type = c /\ Counts(e)

\* The check_date lies in [start_date, end_date], both ends included.
InWindow(check_date) ==
    check_date.t >= start_date /\ check_date.t <= end_date

Last(seq) == seq[Len(seq)]

\* The number of records of the pages received with status 200.
RECURSIVE RecordsServed(_)
RecordsServed(rs) ==
    IF rs = << >> THEN 0
    ELSE RecordsServed(SubSeq(rs, 1, Len(rs) - 1))
         + (IF Last(rs).status_code = 200 THEN Last(rs).n ELSE 0)

(***************************************************************************)
(* C1.                                                                     *)
(***************************************************************************)
\* C1 (as claimed): in every state of the fold, and in the returned value,
\* total_gross_earnings equals the sum of the per-code amounts, which equals
\* the sum of the per-category amounts.
C1_ThreeWaySums ==
    /\ result.total_gross_earnings = SumByType(result)
    /\ SumByType(result) = SumByCategory(result)

(***************************************************************************)
(* C2.                                                                     *)
(***************************************************************************)
\* C2: requests are issued one after another; the first carries no cursor,
\* every later one follows a page with a non-null next and carries exactly
\* that next; a fetch that returned issued one request per page, the last page
\* having no next; and without check-date filtering every record of every
\* page was folded.
C2_Pagination ==
    /\ Len(requests) - Len(responses) \in {0, 1}
    /\ requests # << >> => "cursor" \notin DOMAIN requests[1]
    /\ \A i \in 1..(Len(requests) - 1) :
         /\ responses[i].status_code = 200
         /\ responses[i].next # NoCursor
         /\ "cursor" \in DOMAIN requests[i + 1]
         /\ requests[i + 1]["cursor"] = responses[i].next
    /\ pc = "returned" =>
         /\ Len(requests) = Len(responses)
         /\ Last(responses).next = NoCursor
         /\ ~use_check_date_filtering =>
              /\ Len(runs_seen) = RecordsServed(responses)
              /\ \A i \in DOMAIN runs_seen : runs_seen[i].outcome = "accept"

\* A fetch returned after two pages, the second requested with cursor "c2",
\* one record on each.
C2_Witness ==
    /\ pc = "returned"
    /\ ~use_check_date_filtering
    /\ Len(requests) = 2
    /\ requests[2]["cursor"] = "c2"
    /\ responses[1].n = 1 /\ responses[2].n = 1

(***************************************************************************)
(* C3.                                                                     *)
(***************************************************************************)
\* C3: after a successful fetch, the amount of every code is the sum of the
\* amounts of the non-null, non-zero lines of that code over all accepted
\* records of all pages, total_gross_earnings is the sum of all such amounts,
\* and a code is a key of earnings_by_type exactly when it has such a line.
C3_PerCodeSums ==
    pc = "returned" =>
      /\ result.total_gross_earnings = FSum(Amounts(SelectSeq(lines_seen, Counts)))
      /\ DOMAIN result.earnings_by_type \subseteq Codes
      /\ \A c \in Codes :
           LET Mine(e) == OfCode(c, e)
               mine == SelectSeq(lines_seen, Mine)
           IN  /\ c \in DOMAIN result.earnings_by_type <=> mine # << >>
               /\ c \in DOMAIN result.earnings_by_type =>
                    /\ result.earnings_by_type[c].amount = FSum(Amounts(mine))
                    /\ result.earnings_by_type[c].earning_code = c

\* REG 1 on page 1, REG 1 and OT 1 on page 2: REG 2, OT 1, gross 3.
C3_Witness ==
    /\ pc = "returned"
    /\ Len(responses) = 2
    /\ responses[1].n = 1 /\ responses[2].n = 1
    /\ runs_seen[1].run.n = 1
    /\ lines_seen = << [type |-> "REG", amount |-> F(1)],
                       [type |-> "REG", amount |-> F(1)],
                       [type |-> "OT", amount |-> F(1)] >>
    /\ result.earnings_by_type["REG"].amount = F(2)
    /\ result.earnings_by_type["OT"].amount = F(1)
    /\ result.total_gross_earnings = F(3)

(***************************************************************************)
(* C4.                                                                     *)
(***************************************************************************)
\* C4 (as claimed): with check-date filtering, a record is folded if and only
\* if its check_date is present, parses and lies in [start_date, end_date].
C4_FoldedIffInWindow ==
    use_check_date_filtering =>
      \A i \in DOMAIN runs_seen :
        runs_seen[i].outcome = "accept" <=>
          /\ runs_seen[i].run.check_date.kind \in {"naive", "aware"}
          /\ InWindow(runs_seen[i].run.check_date)

(***************************************************************************)
(* C5.                                                                     *)
(***************************************************************************)
\* The check-date test excludes the record: the field is absent, does not
\* parse, or lies outside the window.
Excluded(check_date) ==
    \/ check_date.kind \in {"absent", "unparsable"}
    \/ ~InWindow(check_date)

\* C5: with check-date filtering, the step that reads a record the check-date
\* test excludes leaves the accumulator as it was (net_pay included).
C5_ExcludedRecordFrame ==
    [][ ( /\ use_check_date_filtering
          /\ Len(runs_seen') = Len(runs_seen) + 1
          /\ Excluded(run'.check_date) )
        => result' = result ]_vars

\* A record dated the day before the window, with net_pay 1 and an earning
\* line, was read after a folded one and the accumulator kept its value.
C5_Witness ==
    /\ use_check_date_filtering
    /\ Len(runs_seen) = 2
    /\ runs_seen[1].outcome = "accept"
    /\ run.check_date = [kind |-> "aware", t |-> start_date - 2]
    /\ run.net_pay = F(1)
    /\ run.n = 1
    /\ runs_seen[2].outcome = "skip"
    /\ result.net_pay = F(1)
    /\ result.total_gross_earnings = F(1)

(***************************************************************************)
(* C6.                                                                     *)
(***************************************************************************)
\* The record is accepted: there is no filtering, or its check_date is a
\* timestamp in the window.
Accepted(entry) ==
    \/ ~use_check_date_filtering
    \/ /\ entry.run.check_date.kind = "aware"
       /\ InWindow(entry.run.check_date)
HasNetPay(entry) == Accepted(entry) /\ entry.run.net_pay # NULL
NetPaysOf(entries) == [i \in 1..Len(entries) |-> entries[i].run.net_pay]

\* C6: at every point of the fetch, and so in the returned value, net_pay is
\* the sum of the net_pay fields of the accepted records read so far (null
\* counting 0), whatever their earnings: no earning line changes it.
C6_NetPaySum ==
    result.net_pay = FSum(NetPaysOf(SelectSeq(runs_seen, HasNetPay)))

\* Two records of net_pay 1, one without an earnings list and one whose only
\* line has amount 0: net_pay 2, no earnings.
C6_Witness ==
    /\ pc = "returned"
    /\ Len(runs_seen) = 2
    /\ runs_seen[1].run.earnings = "absent"
    /\ runs_seen[2].run.n = 1
    /\ lines_seen = << [type |-> "REG", amount |-> F(0)] >>
    /\ result.net_pay = F(2)
    /\ result.total_gross_earnings = F(0)

(***************************************************************************)
(* C7.                                                                     *)
(***************************************************************************)
\* C7: the step that reads an earning line whose amount is null or zero leaves
\* the accumulator as it was: no total changes and no key is created.
C7_ZeroLineFrame ==
    [][ ( /\ Len(lines_seen') = Len(lines_seen) + 1
          /\ earning'.amount \in {NULL, F(0)} )
        => result' = result ]_vars

\* A record's lines REG 0 and REG null were read: no key, no total.
C7_Witness ==
    /\ lines_seen = << [type |-> "REG", amount |-> F(0)],
                       [type |-> "REG", amount |-> NULL] >>
    /\ result.earnings_by_type = EmptyDict
    /\ result.earnings_by_category = EmptyDict
    /\ result.total_gross_earnings = F(0)

(***************************************************************************)
(* C8.                                                                     *)
(***************************************************************************)
\* The category the fallback chain names for a code.
ChainCategory(c) ==
    IF c \in DOMAIN category_map THEN category_map[c]
    ELSE IF "Other Allowances or Earnings" \in DOMAIN category_map
         THEN category_map["Other Allowances or Earnings"]
         ELSE "Other Allowances"

\* C8: the step that reads a non-zero earning line of code c adds its amount
\* to the category the chain names (created at 0 when new) and to no other.
C8_CategoryChain ==
    [][ ( /\ Len(lines_seen') = Len(lines_seen) + 1
          /\ Counts(earning') )
        => LET k == ChainCategory(earning'.type)
               old == result.earnings_by_category
               new == result'.earnings_by_category
           IN  /\ DOMAIN new = DOMAIN old \cup {k}
               /\ new[k] = FAdd(Get(old, k, F(0)), earning'.amount)
               /\ \A j \in DOMAIN old : j # k => new[j] = old[j] ]_vars

\* Under a mapping with REG and the key "Other Allowances or Earnings", an OT
\* line went to that key's category.
C8_Witness ==
    /\ "OT" \notin DOMAIN category_map
    /\ OtherKey \in DOMAIN category_map
    /\ earning = [type |-> "OT", amount |-> BIG]
    /\ lines_seen = << [type |-> "REG", amount |-> F(1)], earning >>
    /\ result.earnings_by_category = ("Base" :> F(1)) @@ ("Misc" :> BIG)

(***************************************************************************)
(* C9.                                                                     *)
(***************************************************************************)
\* The date one year before, same month and day; for Feb 29 a valid date of
\* the prior year, Feb 28 or Feb 29.
IsPriorYearOf(last, this) ==
    /\ IsDate(last)
    /\ last[1] = this[1] - 1
    /\ last[2] = this[2]
    /\ \/ last[3] = this[3]
       \/ this[2] = 2 /\ this[3] = 29 /\ last[3] \in {28, 29}

\* C9 (as claimed): for every current window the prior window is computed,
\* each bound one year earlier with the same month and day (Feb 29 giving a
\* valid prior-year date), and the call goes on to the fetches.
C9_PriorWindow ==
    sum_pc \notin {"idle", "start"} =>
      /\ sum_pc # "ValueError"
      /\ IsPriorYearOf(last_fy_start, this_fy_start)
      /\ IsPriorYearOf(last_fy_end, this_fy_end)

(***************************************************************************)
(* C10.                                                                    *)
(***************************************************************************)
\* C10: a response with a status outside 200..299 ends the fetch at once: it
\* is the last response, the fetch has raised an error carrying its status and
\* body, none of its records was read, no request followed it and nothing was
\* returned.
C10_ErrorAborts ==
    \A i \in DOMAIN responses :
      responses[i].status_code \notin 200..299 =>
        /\ i = Len(responses)
        /\ Len(requests) = i
        /\ pc = "raised"
        /\ error = [kind |-> "Exception",
                    status_code |-> responses[i].status_code,
                    text |-> responses[i].text]
        /\ returned = << >>
        /\ Len(runs_seen) = RecordsServed(SubSeq(responses, 1, i - 1))

\* The second page answered 500 after a record of the first was folded.
C10_Witness ==
    /\ Len(responses) = 2
    /\ responses[2].status_code = 500
    /\ responses[2].n = 1
    /\ Len(runs_seen) = 1
    /\ result.net_pay = F(1)
    /\ pc = "raised"
    /\ returned = << >>

(***************************************************************************)
(* C11.                                                                    *)
(***************************************************************************)
\* The FiscalYearResult of a window given as two date strings and of a
\* fetch's returned FiscalYearEarnings.
ResultOf(start, end, fy) ==
    [start_date |-> start, end_date |-> end, year |-> fy.year,
     net_pay |-> fy.net_pay, total_gross_earnings |-> fy.total_gross_earnings,
     earnings_by_type |-> fy.earnings_by_type,
     earnings_by_category |-> fy.earnings_by_category]

\* The fetch of the frame returned, its value being its whole fold up to a
\* page without next.
Completed(f) ==
    /\ f.pc = "returned"
    /\ f.returned = <<f.result>>
    /\ f.responses[Len(f.responses)].next = NoCursor

\* C11: under every interleaving, a SummaryResult is returned only when both
\* fetches have completed, and current_fy and last_fy are then the results of
\* the current-year and of the prior-year fetch, each fetch having asked for
\* its own window; when a fetch has failed no SummaryResult is returned and
\* the call ends with the API error of a fetch that failed, the one that
\* failed first when both did, never with the error the closing of the client
\* ends the other fetch with.
C11_AllOrNothing ==
    /\ sum_pc = "returned" <=> summary # << >>
    /\ summary # << >> =>
         /\ Completed(ThisFrame) /\ ThisFrame.year = FirstYear + 1
         /\ Completed(LastFrame) /\ LastFrame.year = FirstYear
         /\ summary[1].current_fy =
              ResultOf(ToString(FirstYear + 1) \o "-01-01",
                       ToString(FirstYear + 1) \o "-12-31",
                       ThisFrame.returned[1])
         /\ summary[1].last_fy =
              ResultOf(ToString(FirstYear) \o "-01-01",
                       ToString(FirstYear) \o "-12-31",
                       LastFrame.returned[1])
         /\ \A i \in DOMAIN ThisFrame.requests :
              /\ ThisFrame.requests[i]["ended_after"] =
                   ToString(FirstYear + 1) \o "-01-01"
              /\ ThisFrame.requests[i]["ended_before"] =
                   ToString(FirstYear + 1) \o "-12-31"
         /\ \A i \in DOMAIN LastFrame.requests :
              /\ LastFrame.requests[i]["ended_after"] =
                   ToString(FirstYear) \o "-01-01"
              /\ LastFrame.requests[i]["ended_before"] =
                   ToString(FirstYear) \o "-12-31"
    /\ \A f \in {ThisFrame, LastFrame} :
         f.pc = "raised" =>
           /\ summary = << >>
           /\ sum_pc \in {"gather", "closing", "raised"}
           /\ sum_pc = "closing" => gathered.kind = "raise"
    /\ sum_pc = "raised" =>
         /\ sum_error.kind = "Exception"
         /\ \E f \in {ThisFrame, LastFrame} :
              /\ f.pc = "raised"
              /\ sum_error = f.error
              /\ sum_error.status_code = Last(f.responses).status_code
              /\ sum_error.status_code # 200
         /\ pc = "raised" /\ parked.pc = "raised" => sum_error = parked.error

\* Both fetches returned, the current year's after two pages and the prior
\* year's after one, with different totals, and the summary holds them.
C11_Witness ==
    /\ sum_pc = "returned"
    /\ Len(ThisFrame.responses) = 2
    /\ Len(LastFrame.responses) = 1
    /\ summary[1].current_fy.net_pay = F(2)
    /\ summary[1].current_fy.earnings_by_type = EmptyDict
    /\ summary[1].last_fy.net_pay = F(1)
    /\ summary[1].last_fy.earnings_by_category = ("Misc" :> F(1))
    /\ summary[1].last_fy.year = FirstYear

(***************************************************************************)
(* C12.                                                                    *)
(***************************************************************************)
\* The FiscalYearEarnings of a fetch run alone on the pages of the frame: the
\* sums of the net pays of its records and of the non-zero amounts of its
\* earning lines, per code and per category, over what the frame has read.
AloneResult(f) ==
    LET counted == SelectSeq(f.lines_seen, Counts)
        codes == { counted[i].type : i \in DOMAIN counted }
        OfType(c) == LET Mine(e) == e.type = c IN SelectSeq(counted, Mine)
        OfCategory(k) == LET Mine(e) == ChainCategory(e.type) = k
                         IN  SelectSeq(counted, Mine)
    IN  [year |-> f.year,
         net_pay |-> FSum(NetPaysOf(SelectSeq(f.runs_seen, HasNetPay))),
         total_gross_earnings |-> FSum(Amounts(counted)),
         earnings_by_type |->
           [c \in codes |->
              [earning_code |-> c,
               label |-> IF c \in DOMAIN earnings_map THEN earnings_map[c] ELSE c,
               amount |-> FSum(Amounts(OfType(c)))]],
         earnings_by_category |->
           [k \in { ChainCategory(c) : c \in codes } |->
              FSum(Amounts(OfCategory(k)))]]

\* The fetch of the frame has ended on a page of its own: it returned, or it
\* raised the error of its last response.
EndedOnOwnPage(f) ==
    \/ f.pc = "returned"
    \/ /\ f.pc = "raised"
       /\ f.error.kind = "Exception"
       /\ f.responses # << >>
       /\ f.error.status_code = Last(f.responses).status_code

C13_DateNeverFatal ==
    use_check_date_filtering =>
      /\ \A i \in DOMAIN runs_seen : runs_seen[i].outcome \in {"skip", "accept"}
      /\ pc = "raised" => error.kind = "Exception"

(***************************************************************************)
(* C14.                                                                    *)
(***************************************************************************)
\* The candidates of a file name in the claimed order: cwd/filename,
\* cwd/payroll/filename, module-dir/filename, module-dir/payroll/filename.
Candidates(filename) ==
    LET module_dir == IF cwd_is_module_dir THEN "cwd" ELSE "module"
    IN  [i \in 1..4 |->
           [name |-> filename,
            place |-> [dir |-> IF i <= 2 THEN "cwd" ELSE module_dir,
                       sub |-> IF i % 2 = 1 THEN "" ELSE "payroll"]]]

\* The place in that order of the first candidate that exists, 0 if none does.
FirstExisting(filename) ==
    LET found == { i \in 1..4 :
                     files[filename][Candidates(filename)[i].place].kind # "missing" }
    IN  IF found = {} THEN 0
        ELSE CHOOSE i \in found : \A j \in found : i <= j

\* The candidates a load of the file tests: all up to the first that exists.
TestedFor(filename) ==
    SubSeq(Candidates(filename), 1,
           IF FirstExisting(filename) = 0 THEN 4 ELSE FirstExisting(filename))

FirstFile(filename) ==
    files[filename][Candidates(filename)[FirstExisting(filename)].place]

\* The first existing candidate of the file is not JSON.
LoadFails(filename) ==
    FirstExisting(filename) # 0 /\ FirstFile(filename).kind = "malformed"

\* What a load of the file returns when it does not fail.
Loaded(filename) ==
    IF FirstExisting(filename) = 0 THEN EmptyDict ELSE FirstFile(filename).value

\* C14: each load tests the candidates in the fixed order up to the first
\* that exists and no further, returns the parsed content of that one, returns
\* {} without raising when none exists, and fails when that one is not JSON.
C14_LoadOrder ==
    sum_pc \in {"fetch", "gather", "JSONDecodeError"} =>
      IF LoadFails(earnings_map_file)
      THEN /\ sum_pc = "JSONDecodeError"
           /\ consulted = TestedFor(earnings_map_file)
      ELSE /\ earnings_map = Loaded(earnings_map_file)
           /\ consulted = TestedFor(earnings_map_file) \o TestedFor(category_map_file)
           /\ IF LoadFails(category_map_file)
              THEN sum_pc = "JSONDecodeError"
              ELSE /\ sum_pc \in {"fetch", "gather"}
                   /\ category_map = Loaded(category_map_file)

\* The earnings file is missing in cwd, found in cwd/payroll, and not JSON in
\* the module's directory; no candidate of the category file exists: the
\* earnings map is the content of cwd/payroll, the category map is {}, and six
\* paths were tested.
C14_Witness ==
    /\ sum_pc = "fetch"
    /\ ~cwd_is_module_dir
    /\ files[earnings_map_file][[dir |-> "cwd", sub |-> ""]] = Missing
    /\ files[earnings_map_file][[dir |-> "cwd", sub |-> "payroll"]]
         = Json("REG" :> "Regular Pay")
    /\ files[earnings_map_file][[dir |-> "module", sub |-> ""]] = Malformed
    /\ \A p \in Places : files[category_map_file][p] = Missing
    /\ earnings_map = ("REG" :> "Regular Pay")
    /\ category_map = EmptyDict
    /\ Len(consulted) = 6

(***************************************************************************)
(* C15.                                                                    *)
(***************************************************************************)
\* C15: a second call with the same window, mappings and flag against the
\* same pages starts from an empty accumulator, issues the same requests and
\* ends as the first did: it returns the same FiscalYearEarnings, field by
\* field, or raises the same error.
C15_Deterministic ==
    task = "run2" =>
      /\ responses = << >> => result = [year |-> parked.year,
                                       net_pay |-> F(0),
                                       total_gross_earnings |-> F(0),
                                       earnings_by_type |-> EmptyDict,
                                       earnings_by_category |-> EmptyDict]
      /\ \A i \in DOMAIN requests : requests[i] = parked.requests[i]
      /\ pc \in {"returned", "raised"} =>
           /\ pc = parked.pc
           /\ result = parked.result
           /\ returned = parked.returned
           /\ error = parked.error
           /\ requests = parked.requests

\* The second call returned after the same two pages, with the totals of
\* the lines REG 1 and OT 1 the first call returned.
C15_Witness ==
    /\ task = "run2"
    /\ pc = "returned"
    /\ Len(responses) = 2
    /\ lines_seen = << [type |-> "REG", amount |-> F(1)],
                       [type |-> "OT", amount |-> F(1)] >>
    /\ returned = parked.returned
    /\ DOMAIN returned[1].earnings_by_type = {"REG", "OT"}
    /\ returned[1].earnings_by_category = ("Base" :> F(1)) @@ ("Misc" :> F(1))
    /\ returned[1].total_gross_earnings = F(2)
    /\ returned[1].net_pay = F(2)

(***************************************************************************)
(* C16.                                                                    *)
(***************************************************************************)
\* The sum of the accumulated amounts of the codes in cs.
RECURSIVE TypeAmounts(_, _)
TypeAmounts(res, cs) ==
    IF cs = {} THEN F(0)
    ELSE LET c == CHOOSE x \in cs : TRUE
         IN  FAdd(TypeAmounts(res, cs \ {c}), res.earnings_by_type[c].amount)

\* C16 (as claimed): after a successful fetch, the categories are those the
\* codes of earnings_by_type resolve to, and the amount of each category is
\* the sum of the amounts of the codes that resolve to it.
C16_CategoryOfCodes ==
    pc = "returned" =>
      /\ DOMAIN result.earnings_by_category =
           { ChainCategory(c) : c \in DOMAIN result.earnings_by_type }
      /\ \A k \in DOMAIN result.earnings_by_category :
           result.earnings_by_category[k] =
             TypeAmounts(result, { c \in DOMAIN result.earnings_by_type :
                                     ChainCategory(c) = k })

(***************************************************************************)
(* C17.                                                                    *)
(***************************************************************************)
\* the calendar day of an instant
DayOf(t) == t \div 2

\* C17 (as claimed): with check-date filtering, a record whose check_date is
\* a timestamp is accepted exactly when its calendar day is one of the days
\* from the start date to the end date, whatever the time of day.
C17_DateGranularity ==
    use_check_date_filtering =>
      \A i \in DOMAIN runs_seen :
        runs_seen[i].run.check_date.kind = "aware" =>
          ( runs_seen[i].outcome = "accept" <=>
              DayOf(runs_seen[i].run.check_date.t) \in
                DayOf(start_date)..DayOf(end_date) )

(***************************************************************************)
(* C18.                                                                    *)
(***************************************************************************)
\* C18: every request of a fetch carries ended_after and ended_before, the
\* window's start and end as YYYY-MM-DD, exactly when there is no check-date
\* filtering; and then every record read is folded whatever its check_date,
\* so a fetch that returned folded every record the server sent.
C18_ModesExclusive ==
    /\ \A i \in DOMAIN requests :
         /\ "ended_after" \in DOMAIN requests[i] <=> ~use_check_date_filtering
         /\ "ended_before" \in DOMAIN requests[i] <=> ~use_check_date_filtering
         /\ ~use_check_date_filtering =>
              /\ requests[i]["ended_after"] =
                   ToString(FirstYear + 1) \o "-01-0" \o ToString(WindowDay + 1)
              /\ requests[i]["ended_before"] =
                   ToString(FirstYear + 1) \o "-01-0"
                     \o ToString(WindowDay + WindowLen + 1)
    /\ ~use_check_date_filtering =>
         /\ \A i \in DOMAIN runs_seen : runs_seen[i].outcome = "accept"
         /\ pc = "returned" => Len(runs_seen) = RecordsServed(responses)

\* Without check-date filtering, two requests carried the date filters, and a
\* record without check_date and one dated after the window were both folded.
C18_Witness ==
    /\ ~use_check_date_filtering
    /\ pc = "returned"
    /\ Len(requests) = 2
    /\ "ended_after" \in DOMAIN requests[2]
    /\ Len(runs_seen) = 2
    /\ runs_seen[1].run.check_date.kind = "absent"
    /\ runs_seen[1].run.net_pay = F(1)
    /\ runs_seen[2].run.check_date = [kind |-> "aware", t |-> end_date + 2]
    /\ runs_seen[2].run.net_pay = F(1)
    /\ result.net_pay = F(2)

(***************************************************************************)
(* C19.                                                                    *)
(***************************************************************************)
\* C19 (as claimed): a response with a 2xx status never ends the fetch with
\* an error: its page is read.
C19_SuccessIsAPage ==
    \A i \in DOMAIN responses :
      responses[i].status_code \in 200..299 =>
        ~( /\ i = Len(responses)
           /\ pc = "raised"
           /\ error.kind = "Exception"
           /\ error.status_code = responses[i].status_code )

(***************************************************************************)
(* C20.                                                                    *)
(***************************************************************************)
\* The part of C20 that is termination: against a server whose page chain
\* ends within MaxPages pages, the fetch returns or raises, and so does the
\* summary with its two fetches.
C20_FetchTerminates == <>(pc \in {"returned", "raised"})
C20_SummaryTerminates == <>(sum_pc \in {"returned", "raised"})

\* C20 (as claimed): a fetch completes only by returning after a page
\* without next or by raising the error of a response.
C20_OnlyTwoExits ==
    /\ pc = "returned" =>
         /\ Len(responses) = Len(requests)
         /\ responses[Len(responses)].next = NoCursor
    /\ pc = "raised" =>
         /\ Len(responses) = Len(requests)
         /\ error.kind = "Exception"
         /\ error.status_code = responses[Len(responses)].status_code

============================================================================
